---- MODULE Spec2Model ----
(***************************************************************************)
(* Model of executive_review_tool.py: pairwise similarity scoring, star    *)
(* clustering of executive records, confidence tiering, the interactive    *)
(* review session and the upload of the approved groups (Spec; SpecKeys    *)
(* runs the same steps on tables of people of the same name, SpecReview    *)
(* adds an operator who eventually answers every prompt), single calls of  *)
(* calculate_similarity_score (SpecScore), and main of                     *)
(* index_align_to_firebase.py: connections, ticker lookup, approval and    *)
(* upload of the issues (SpecIssues).                                      *)
(*                                                                         *)
(* Strings are sequences of one-character strings.  Scores are exact       *)
(* rationals [n, d] (the program uses binary floating point).              *)
(***************************************************************************)
EXTENDS Integers, Sequences, FiniteSets, TLC

\* ---------------------------------------------------------------- bounds
MaxRecords == 4
MaxNameLen == 2

\* ------------------------------------------------------------ characters
None == <<"NULL">>

IsWhite(ch) == ch = " "

\* the alphabet of the modelled strings, with Python's str.lower and code points
Upper == [a |-> "A", b |-> "B", c |-> "C", e |-> "E", i |-> "I", k |-> "K", n |-> "N",
          o |-> "O", p |-> "P", s |-> "S", y |-> "Y"]

LowerChar(ch) == IF \E l \in DOMAIN Upper : Upper[l] = ch
                 THEN CHOOSE l \in DOMAIN Upper : Upper[l] = ch
                 ELSE ch

Ord(ch) == IF ch = " " THEN 32
           ELSE IF ch = "A" THEN 65 ELSE IF ch = "B" THEN 66 ELSE IF ch = "C" THEN 67
           ELSE IF ch = "E" THEN 69 ELSE IF ch = "I" THEN 73 ELSE IF ch = "K" THEN 75
           ELSE IF ch = "N" THEN 78 ELSE IF ch = "O" THEN 79 ELSE IF ch = "P" THEN 80
           ELSE IF ch = "S" THEN 83 ELSE IF ch = "Y" THEN 89
           ELSE IF ch = "a" THEN 97 ELSE IF ch = "b" THEN 98 ELSE IF ch = "c" THEN 99
           ELSE IF ch = "e" THEN 101 ELSE IF ch = "i" THEN 105 ELSE IF ch = "k" THEN 107
           ELSE IF ch = "n" THEN 110 ELSE IF ch = "o" THEN 111 ELSE IF ch = "p" THEN 112
           ELSE IF ch = "s" THEN 115 ELSE 121

Lower(s) == [k \in 1..Len(s) |-> LowerChar(s[k])]

RECURSIVE LStrip(_)
LStrip(s) == IF s # <<>> /\ IsWhite(Head(s)) THEN LStrip(Tail(s)) ELSE s

RECURSIVE RStrip(_)
RStrip(s) == IF s # <<>> /\ IsWhite(s[Len(s)])
             THEN RStrip(SubSeq(s, 1, Len(s) - 1)) ELSE s

Strip(s) == RStrip(LStrip(s))

\* str.split(): the maximal runs of non-whitespace characters, in order
RECURSIVE SplitFrom(_, _, _)
SplitFrom(s, cur, acc) ==
    IF s = <<>> THEN (IF cur = <<>> THEN acc ELSE Append(acc, cur))
    ELSE IF IsWhite(Head(s))
         THEN SplitFrom(Tail(s), <<>>, IF cur = <<>> THEN acc ELSE Append(acc, cur))
         ELSE SplitFrom(Tail(s), Append(cur, Head(s)), acc)

Split(s) == SplitFrom(s, <<>>, <<>>)

\* ' '.join(tokens)
RECURSIVE Join(_)
Join(toks) == IF toks = <<>> THEN <<>>
              ELSE IF Len(toks) = 1 THEN toks[1]
              ELSE toks[1] \o <<" ">> \o Join(Tail(toks))

normalize_string(s) == IF s = None THEN <<>> ELSE Join(Split(Lower(Strip(s))))

\* lexicographic order of two strings by code point
RECURSIVE StrLess(_, _)
StrLess(a, b) ==
    IF b = <<>> THEN FALSE
    ELSE IF a = <<>> THEN TRUE
    ELSE IF Ord(Head(a)) < Ord(Head(b)) THEN TRUE
    ELSE IF Ord(Head(a)) > Ord(Head(b)) THEN FALSE
    ELSE StrLess(Tail(a), Tail(b))

RECURSIVE InsertSorted(_, _)
InsertSorted(tok, sorted) ==
    IF sorted = <<>> THEN <<tok>>
    ELSE IF StrLess(tok, Head(sorted)) THEN <<tok>> \o sorted
    ELSE <<Head(sorted)>> \o InsertSorted(tok, Tail(sorted))

RECURSIVE SortTokens(_)
SortTokens(toks) == IF toks = <<>> THEN <<>>
                    ELSE InsertSorted(Head(toks), SortTokens(Tail(toks)))

\* ------------------------------------------------------------- rationals
RECURSIVE GCD(_, _)
GCD(a, b) == IF b = 0 THEN a ELSE GCD(b, a % b)

Rat(n, d) == LET g == GCD(n, d) IN
             IF n = 0 THEN [n |-> 0, d |-> 1] ELSE [n |-> n \div g, d |-> d \div g]

RatAdd(x, y) == LET l == (x.d \div GCD(x.d, y.d)) * y.d IN
                Rat(x.n * (l \div x.d) + y.n * (l \div y.d), l)

RatMulInt(x, k) == Rat(x.n * k, x.d)

RatDivInt(x, k) == Rat(x.n, x.d * k)

RatGeq(x, y) == x.n * y.d >= y.n * x.d

RatLess(x, y) == x.n * y.d < y.n * x.d

RatInt(k) == [n |-> k, d |-> 1]

\* ------------------------------------------------------ string similarity
RECURSIVE LCS(_, _)
LCS(a, b) ==
    IF a = <<>> \/ b = <<>> THEN 0
    ELSE IF Head(a) = Head(b) THEN 1 + LCS(Tail(a), Tail(b))
    ELSE LET x == LCS(Tail(a), b)
             y == LCS(a, Tail(b))
         IN IF x >= y THEN x ELSE y

\* rapidfuzz fuzz.ratio: 100 * (1 - indel_distance / (len(a) + len(b)))
fuzz_ratio(a, b) ==
    IF Len(a) + Len(b) = 0 THEN RatInt(100)
    ELSE Rat(100 * ((Len(a) + Len(b)) - ((Len(a) + Len(b)) - 2 * LCS(a, b))),
             Len(a) + Len(b))

fuzz_token_sort_ratio(a, b) ==
    fuzz_ratio(Join(SortTokens(Split(a))), Join(SortTokens(Split(b))))

\* ------------------------------------------------------------ pair score
NoCol == "NONE"

\* record.get(col, "")
Field(rec, col) == IF col \in DOMAIN rec THEN rec[col] ELSE <<>>

WeightName == 50
WeightAddress == 25
WeightTitle == 15
WeightCompany == 10

RECURSIVE SumWeights(_)
SumWeights(parts) == IF parts = <<>> THEN 0 ELSE Head(parts).w + SumWeights(Tail(parts))

RECURSIVE SumWeighted(_)
SumWeighted(parts) ==
    IF parts = <<>> THEN RatInt(0)
    ELSE RatAdd(RatMulInt(Head(parts).s, Head(parts).w), SumWeighted(Tail(parts)))

\* variant that tests only the first record's value of each role
SubScoresOneSided(record1, record2, nc, tc, ac, cc) ==
    LET name1 == normalize_string(Field(record1, nc))
        name2 == normalize_string(Field(record2, nc))
        address1 == normalize_string(Field(record1, ac))
        address2 == normalize_string(Field(record2, ac))
        title1 == normalize_string(Field(record1, tc))
        title2 == normalize_string(Field(record2, tc))
        company1 == normalize_string(Field(record1, cc))
        company2 == normalize_string(Field(record2, cc))
    IN  (IF name1 # <<>>
         THEN <<[s |-> fuzz_token_sort_ratio(name1, name2), w |-> WeightName]>> ELSE <<>>)
     \o (IF address1 # <<>>
         THEN <<[s |-> fuzz_token_sort_ratio(address1, address2), w |-> WeightAddress]>>
         ELSE <<>>)
     \o (IF title1 # <<>>
         THEN <<[s |-> fuzz_token_sort_ratio(title1, title2), w |-> WeightTitle]>> ELSE <<>>)
     \o (IF company1 # <<>>
         THEN <<[s |-> fuzz_ratio(company1, company2), w |-> WeightCompany]>> ELSE <<>>)

\* the (score, weight) pairs appended to scores / weights, in the code's order
SubScores(record1, record2, nc, tc, ac, cc) ==
    LET name1 == normalize_string(Field(record1, nc))
        name2 == normalize_string(Field(record2, nc))
        address1 == normalize_string(Field(record1, ac))
        address2 == normalize_string(Field(record2, ac))
        title1 == normalize_string(Field(record1, tc))
        title2 == normalize_string(Field(record2, tc))
        company1 == normalize_string(Field(record1, cc))
        company2 == normalize_string(Field(record2, cc))
    IN  (IF name1 # <<>> /\ name2 # <<>>
         THEN <<[s |-> fuzz_token_sort_ratio(name1, name2), w |-> WeightName]>> ELSE <<>>)
     \o (IF address1 # <<>> /\ address2 # <<>>
         THEN <<[s |-> fuzz_token_sort_ratio(address1, address2), w |-> WeightAddress]>>
         ELSE <<>>)
     \o (IF title1 # <<>> /\ title2 # <<>>
         THEN <<[s |-> fuzz_token_sort_ratio(title1, title2), w |-> WeightTitle]>> ELSE <<>>)
     \o (IF company1 # <<>> /\ company2 # <<>>
         THEN <<[s |-> fuzz_ratio(company1, company2), w |-> WeightCompany]>> ELSE <<>>)

\* variant that divides by the sum of all four weights
calculate_similarity_scoreNoRenormalize(record1, record2, nc, tc, ac, cc) ==
    LET parts == SubScores(record1, record2, nc, tc, ac, cc)
    IN  IF parts = <<>> THEN RatInt(0)
        ELSE RatDivInt(SumWeighted(parts),
                       WeightName + WeightAddress + WeightTitle + WeightCompany)

calculate_similarity_score(record1, record2, nc, tc, ac, cc) ==
    LET parts == SubScores(record1, record2, nc, tc, ac, cc)
        total_weight == SumWeights(parts)
    IN  IF parts = <<>> THEN RatInt(0)
        ELSE IF total_weight = 0 THEN RatInt(0)
        ELSE RatDivInt(SumWeighted(parts), total_weight)

\* ------------------------------------------------------------- inputs
AllColumns == {"name", "title", "address", "company"}

\* the column sets of the retrieved table (roles are found by header name):
\* all four roles, the name alone, and a table without a name column
ColumnSets == {AllColumns, {"name"}, {"company"}}

\* (similarity_threshold, uncertainty_threshold): the defaults, an inverted
\* pair, and an equal pair
DefaultSimilarityThreshold == 75
DefaultUncertaintyThreshold == 85

ThresholdPairs == {<<DefaultSimilarityThreshold, DefaultUncertaintyThreshold>>,
                   <<80, DefaultSimilarityThreshold>>,
                   <<DefaultUncertaintyThreshold, DefaultUncertaintyThreshold>>}

GroupingThresholds == {tp[1] : tp \in ThresholdPairs}

RecordPool ==
    { [name |-> <<"a", "b">>, title |-> None, address |-> <<"b", " ", "c">>,
       company |-> <<"B", " ">>],
      [name |-> <<"a", " ", "b", "c">>, title |-> <<"A">>, address |-> <<>>,
       company |-> <<"A">>],
      [name |-> <<"A", "b", " ">>, title |-> None, address |-> <<"b", " ", "c">>,
       company |-> <<"A">>],
      [name |-> <<"c", " ", "a", "b">>, title |-> <<"b">>, address |-> <<"c", " ", "b">>,
       company |-> <<"A">>],
      [name |-> <<"a", " ", "b">>, title |-> None, address |-> <<"b", " ", "c">>,
       company |-> <<"a">>] }

\* the rows of a table with the columns cols
Rows(cols) == {[c \in cols |-> r[c]] : r \in RecordPool}

\* the tables of at most MaxRecords rows, no row twice
RecordLists(cols) ==
    UNION {{recs \in [1..n -> Rows(cols)] :
               \A a, b \in 1..n : a # b => recs[a] # recs[b]} :
           n \in 1..(IF MaxRecords < Cardinality(Rows(cols))
                      THEN MaxRecords ELSE Cardinality(Rows(cols)))}

\* what the operator types at the review prompt
Responses == { <<"y", "e", "s">>, <<"Y">>, <<" ", "N", "o">>,
               <<"s", "k", "i", "p">>, <<"o", "k">>, <<>> }

\* ------------------------------------------------------------- state
VARIABLES pc, records, similarity_threshold, uncertainty_threshold,
          name_col, title_col, address_col, company_col,
          i, grouped, groups, group_id, uncertain_groups,
          json_filename, review_pos, approved_groups, rejected_groups, response,
          review_status,
          up_pos, executives, person_companies, set_calls, upload_ok,
          pair_record1, pair_record2, pair_cols, pair_score, pair_score_rev,
          tunnel, conn, ssh_tunnel, db_connection, main_result,
          df, tickers, row, ticker_to_company_id, skipped_tickers, issues_dict,
          lookup_calls, result_rows,
          attempt, approved, user_input, issues_store

vars == <<pc, records, similarity_threshold, uncertainty_threshold,
          name_col, title_col, address_col, company_col,
          i, grouped, groups, group_id, uncertain_groups,
          json_filename, review_pos, approved_groups, rejected_groups, response,
          review_status,
          up_pos, executives, person_companies, set_calls, upload_ok,
          pair_record1, pair_record2, pair_cols, pair_score, pair_score_rev,
          tunnel, conn, ssh_tunnel, db_connection, main_result,
          df, tickers, row, ticker_to_company_id, skipped_tickers, issues_dict,
          lookup_calls, result_rows,
          attempt, approved, user_input, issues_store>>

\* the arguments and results of single calls of calculate_similarity_score
pairVars == <<pair_record1, pair_record2, pair_cols, pair_score, pair_score_rev>>

\* the state of the issues pipeline (index_align_to_firebase.py)
connVars == <<tunnel, conn, ssh_tunnel, db_connection, main_result>>
transformVars == <<row, ticker_to_company_id, skipped_tickers, issues_dict,
                   lookup_calls, result_rows>>
approvalVars == <<attempt, approved, user_input>>
issuesVars == <<connVars, df, tickers, transformVars, approvalVars, issues_store>>

colVars == <<name_col, title_col, address_col, company_col>>
inputVars == <<records, similarity_threshold, uncertainty_threshold>>
clusterVars == <<i, grouped, groups, group_id, uncertain_groups>>
reviewVars == <<review_pos, approved_groups, rejected_groups, response, review_status>>
uploadVars == <<up_pos, executives, person_companies, set_calls, upload_ok>>

\* "x or name_col" of main's calls
OrName(col) == IF col = NoCol THEN name_col ELSE col

\* the column arguments main can pass: every role but name falls back to name
ColumnArgs == {<<"name", tc, ac, cc>> : tc \in {"title", "name"},
                                        ac \in {"address", "name"},
                                        cc \in {"company", "name"}}

\* rows of two people of the same name: the records of each agree in name
\* and address and in nothing else, and the two people share only the name
KeyPool ==
    { [name |-> <<"a", "b">>, title |-> <<"a">>, address |-> <<"a">>,
       company |-> <<"A">>],
      [name |-> <<"A", "b", " ">>, title |-> <<"b">>, address |-> <<"a">>,
       company |-> <<"b">>],
      [name |-> <<"a", "B">>, title |-> <<"c">>, address |-> <<"b">>,
       company |-> <<"c">>],
      [name |-> <<" ", "a", "b">>, title |-> <<"k">>, address |-> <<"b">>,
       company |-> <<"e">>] }

\* the tables of at most MaxRecords of these rows, no row twice
KeyRecordLists ==
    UNION {{recs \in [1..n -> KeyPool] :
               \A a, b \in 1..n : a # b => recs[a] # recs[b]} :
           n \in 1..(IF MaxRecords < Cardinality(KeyPool)
                      THEN MaxRecords ELSE Cardinality(KeyPool))}

\* tables that hold the first row of such a table twice
TwinRecordLists ==
    {<<recs[1]>> \o recs : recs \in {rl \in KeyRecordLists : Len(rl) < MaxRecords}}

\* the rows that are scored: grouping runs only on a table with a name column
AllRows == UNION {Rows(cols) : cols \in {cs \in ColumnSets : "name" \in cs}} \cup KeyPool

\* calculate_similarity_score tabulated over the rows and column arguments
ScoreTable ==
    [key \in AllRows \X AllRows \X ColumnArgs |->
        calculate_similarity_score(key[1], key[2],
                                   key[3][1], key[3][2], key[3][3], key[3][4])]

\* score of the records with 0-based indices a and b, as group_executive_records calls it
Score(recs, a, b) ==
    ScoreTable[<<recs[a + 1], recs[b + 1],
                 <<name_col, OrName(title_col), OrName(address_col),
                   OrName(company_col)>>>>]

\* no call of calculate_similarity_score made on its own
NoRecord == [c \in {} |-> <<>>]
NoScore == [n |-> 0 - 1, d |-> 1]

\* no run of the issues pipeline
NoMap == [k \in {} |-> <<>>]

IssuesIdle ==
    /\ tunnel = "None" /\ conn = "None"
    /\ ssh_tunnel = "none" /\ db_connection = "none"
    /\ main_result = "NONE"
    /\ df = <<>> /\ tickers = NoMap
    /\ row = 0 /\ ticker_to_company_id = NoMap /\ skipped_tickers = {}
    /\ issues_dict = NoMap /\ lookup_calls = <<>> /\ result_rows = {}
    /\ attempt = 0 /\ approved = FALSE /\ user_input = <<>>
    /\ issues_store = NoMap

Init ==
    /\ pc = "identify"
    /\ \E cols \in ColumnSets : records \in RecordLists(cols)
    /\ \E tp \in ThresholdPairs :
          /\ similarity_threshold = tp[1]
          /\ uncertainty_threshold = tp[2]
    /\ name_col = NoCol /\ title_col = NoCol /\ address_col = NoCol /\ company_col = NoCol
    /\ i = 0 /\ grouped = {} /\ groups = <<>> /\ group_id = 0 /\ uncertain_groups = <<>>
    /\ json_filename = "NONE"
    /\ review_pos = 0 /\ approved_groups = <<>> /\ rejected_groups = <<>>
    /\ response = <<>>
    /\ review_status = "none"
    /\ up_pos = 0
    /\ executives = [k \in {} |-> <<>>]
    /\ person_companies = [k \in {} |-> <<>>]
    /\ set_calls = <<>>
    /\ upload_ok = "NONE"
    /\ pair_record1 = NoRecord /\ pair_record2 = NoRecord
    /\ pair_cols = <<NoCol, NoCol, NoCol, NoCol>>
    /\ pair_score = NoScore /\ pair_score_rev = NoScore
    /\ IssuesIdle

\* ------------------------------------------------- identify_column_names
identify_column(role, cols) == IF role \in cols THEN role ELSE NoCol

\* variant of main's step 4 without the return on a missing name column
IdentifyColumnsNoAbort ==
    /\ pc = "identify"
    /\ name_col' = identify_column("name", DOMAIN records[1])
    /\ title_col' = identify_column("title", DOMAIN records[1])
    /\ address_col' = identify_column("address", DOMAIN records[1])
    /\ company_col' = identify_column("company", DOMAIN records[1])
    /\ pc' = "group"
    /\ UNCHANGED <<issuesVars, pairVars, inputVars, clusterVars, json_filename, reviewVars, uploadVars>>

\* main's step 4 (lines 635-648)
IdentifyColumns ==
    /\ pc = "identify"
    /\ name_col' = identify_column("name", DOMAIN records[1])
    /\ title_col' = identify_column("title", DOMAIN records[1])
    /\ address_col' = identify_column("address", DOMAIN records[1])
    /\ company_col' = identify_column("company", DOMAIN records[1])
    /\ pc' = IF name_col' = NoCol THEN "done" ELSE "group"
    /\ UNCHANGED <<issuesVars, pairVars, inputVars, clusterVars, json_filename, reviewVars, uploadVars>>

\* ------------------------------------------------ group_executive_records
\* variant of the inner loop without the "j in grouped" test
RECURSIVE ScanSeedNoGroupedTest(_, _, _, _, _)
ScanSeedNoGroupedTest(recs, seed, from, threshold, st) ==
    IF from >= Len(recs) THEN st
    ELSE IF from <= seed
         THEN ScanSeedNoGroupedTest(recs, seed, from + 1, threshold, st)
         ELSE IF RatGeq(Score(recs, seed, from), RatInt(threshold))
              THEN ScanSeedNoGroupedTest(recs, seed, from + 1, threshold,
                            [cur |-> Append(st.cur, from), grp |-> st.grp \cup {from}])
              ELSE ScanSeedNoGroupedTest(recs, seed, from + 1, threshold, st)

\* variant of the inner loop that links j to any member already in the group
RECURSIVE ScanSeedTransitive(_, _, _, _, _)
ScanSeedTransitive(recs, seed, from, threshold, st) ==
    IF from >= Len(recs) THEN st
    ELSE IF from <= seed \/ from \in st.grp
         THEN ScanSeedTransitive(recs, seed, from + 1, threshold, st)
         ELSE IF \E k \in 1..Len(st.cur) :
                    RatGeq(Score(recs, st.cur[k], from), RatInt(threshold))
              THEN ScanSeedTransitive(recs, seed, from + 1, threshold,
                            [cur |-> Append(st.cur, from), grp |-> st.grp \cup {from}])
              ELSE ScanSeedTransitive(recs, seed, from + 1, threshold, st)

\* variant of the inner loop with the comparison turned round
RECURSIVE ScanSeedBelow(_, _, _, _, _)
ScanSeedBelow(recs, seed, from, threshold, st) ==
    IF from >= Len(recs) THEN st
    ELSE IF from <= seed \/ from \in st.grp
         THEN ScanSeedBelow(recs, seed, from + 1, threshold, st)
         ELSE IF RatGeq(RatInt(threshold), Score(recs, seed, from))
              THEN ScanSeedBelow(recs, seed, from + 1, threshold,
                            [cur |-> Append(st.cur, from), grp |-> st.grp \cup {from}])
              ELSE ScanSeedBelow(recs, seed, from + 1, threshold, st)

\* variant of the inner loop that stops at the first record it absorbs
RECURSIVE ScanSeedFirstMatch(_, _, _, _, _)
ScanSeedFirstMatch(recs, seed, from, threshold, st) ==
    IF from >= Len(recs) THEN st
    ELSE IF from <= seed \/ from \in st.grp
         THEN ScanSeedFirstMatch(recs, seed, from + 1, threshold, st)
         ELSE IF RatGeq(Score(recs, seed, from), RatInt(threshold))
              THEN [cur |-> Append(st.cur, from), grp |-> st.grp \cup {from}]
              ELSE ScanSeedFirstMatch(recs, seed, from + 1, threshold, st)

\* the inner loop over j = from .. len(records)-1 for the seed record seed:
\* st = [cur |-> current_group, grp |-> grouped]
RECURSIVE ScanSeed(_, _, _, _, _)
ScanSeed(recs, seed, from, threshold, st) ==
    IF from >= Len(recs) THEN st
    ELSE IF from <= seed \/ from \in st.grp
         THEN ScanSeed(recs, seed, from + 1, threshold, st)
         ELSE IF RatGeq(Score(recs, seed, from), RatInt(threshold))
              THEN ScanSeed(recs, seed, from + 1, threshold,
                            [cur |-> Append(st.cur, from), grp |-> st.grp \cup {from}])
              ELSE ScanSeed(recs, seed, from + 1, threshold, st)

\* the distinct non-empty normalized company values of the member records
GroupCompanies(recs, members) ==
    {normalize_string(Field(recs[members[k] + 1], OrName(company_col))) :
        k \in 1..Len(members)} \ {<<>>}

NewGroup(recs, gid, members) ==
    [group_id |-> gid,
     record_indices |-> members,
     companies |-> GroupCompanies(recs, members),
     person_name |-> normalize_string(Field(recs[members[1] + 1], name_col)),
     avg_similarity |-> RatInt(0),
     confidence |-> "unset"]

\* variant of the outer loop's iteration that counts discarded singletons too
ClusterIterationCountsSingletons(recs, seed, threshold, cs) ==
    IF seed \in cs.grouped THEN cs
    ELSE LET st == ScanSeed(recs, seed, 0, threshold,
                            [cur |-> <<seed>>, grp |-> cs.grouped \cup {seed}])
         IN  IF Len(st.cur) > 1
             THEN [grouped |-> st.grp,
                   groups |-> Append(cs.groups, NewGroup(recs, cs.group_id, st.cur)),
                   group_id |-> cs.group_id + 1]
             ELSE [grouped |-> st.grp, groups |-> cs.groups,
                   group_id |-> cs.group_id + 1]

\* variant of the outer loop's iteration that emits every candidate group
ClusterIterationEmitsSingletons(recs, seed, threshold, cs) ==
    IF seed \in cs.grouped THEN cs
    ELSE LET st == ScanSeed(recs, seed, 0, threshold,
                            [cur |-> <<seed>>, grp |-> cs.grouped \cup {seed}])
         IN  [grouped |-> st.grp,
              groups |-> Append(cs.groups, NewGroup(recs, cs.group_id, st.cur)),
              group_id |-> cs.group_id + 1]

\* one iteration of the outer loop (lines 304-342) on the clustering state
\* cs = [grouped, groups, group_id]
ClusterIteration(recs, seed, threshold, cs) ==
    IF seed \in cs.grouped THEN cs
    ELSE LET st == ScanSeed(recs, seed, 0, threshold,
                            [cur |-> <<seed>>, grp |-> cs.grouped \cup {seed}])
         IN  IF Len(st.cur) > 1
             THEN [grouped |-> st.grp,
                   groups |-> Append(cs.groups, NewGroup(recs, cs.group_id, st.cur)),
                   group_id |-> cs.group_id + 1]
             ELSE [grouped |-> st.grp, groups |-> cs.groups, group_id |-> cs.group_id]

\* variant of the outer loop that visits the records in no fixed order
ClusterStepAnyOrder ==
    /\ pc = "group"
    /\ i < Len(records)
    /\ \E seed \in 0..(Len(records) - 1) :
          LET cs == ClusterIteration(records, seed, similarity_threshold,
                                     [grouped |-> grouped, groups |-> groups,
                                      group_id |-> group_id])
          IN  /\ grouped' = cs.grouped
              /\ groups' = cs.groups
              /\ group_id' = cs.group_id
    /\ i' = i + 1
    /\ UNCHANGED <<pc, issuesVars, pairVars, inputVars, colVars, uncertain_groups, json_filename,
                   reviewVars, uploadVars>>

\* one iteration of the loop "for i, record1 in enumerate(records)"
ClusterStep ==
    /\ pc = "group"
    /\ i < Len(records)
    /\ LET cs == ClusterIteration(records, i, similarity_threshold,
                                  [grouped |-> grouped, groups |-> groups,
                                   group_id |-> group_id])
       IN  /\ grouped' = cs.grouped
           /\ groups' = cs.groups
           /\ group_id' = cs.group_id
    /\ i' = i + 1
    /\ UNCHANGED <<pc, issuesVars, pairVars, inputVars, colVars, uncertain_groups, json_filename,
                   reviewVars, uploadVars>>

\* the whole outer loop on a record list: the groups emitted with a threshold
RECURSIVE ClusterFrom(_, _, _, _)
ClusterFrom(recs, seed, threshold, cs) ==
    IF seed >= Len(recs) THEN cs
    ELSE ClusterFrom(recs, seed + 1, threshold,
                     ClusterIteration(recs, seed, threshold, cs))

ClusterAll(recs, threshold) ==
    ClusterFrom(recs, 0, threshold, [grouped |-> {}, groups |-> <<>>, group_id |-> 0]).groups

\* the scores of all unordered member pairs, in the order of the nested loops
RECURSIVE PairSimilarities(_, _, _, _)
PairSimilarities(recs, members, a, b) ==
    IF a > Len(members) THEN <<>>
    ELSE IF b > Len(members) THEN PairSimilarities(recs, members, a + 1, a + 2)
    ELSE <<Score(recs, members[a], members[b])>>
         \o PairSimilarities(recs, members, a, b + 1)

RECURSIVE RatSum(_)
RatSum(xs) == IF xs = <<>> THEN RatInt(0) ELSE RatAdd(Head(xs), RatSum(Tail(xs)))

\* variant that divides the sum of the pair scores by the number of members
AvgSimilarityPerMember(recs, members) ==
    LET similarities == PairSimilarities(recs, members, 1, 2)
    IN  RatDivInt(RatSum(similarities), Len(members))

\* sum(similarities) / len(similarities)
AvgSimilarity(recs, members) ==
    LET similarities == PairSimilarities(recs, members, 1, 2)
    IN  RatDivInt(RatSum(similarities), Len(similarities))

\* variant of the tiering without the upper bound of the "uncertain" band
ConfidenceNoUpperBound(avg, sim_threshold, unc_threshold) ==
    IF RatGeq(avg, RatInt(sim_threshold)) THEN "uncertain"
    ELSE IF RatGeq(avg, RatInt(unc_threshold)) THEN "high"
    ELSE "low"

\* variant of the tiering without the lower bound of the "uncertain" band
ConfidenceNoLowerBound(avg, sim_threshold, unc_threshold) ==
    IF RatLess(avg, RatInt(unc_threshold)) THEN "uncertain"
    ELSE IF RatGeq(avg, RatInt(unc_threshold)) THEN "high"
    ELSE "low"

\* lines 368-377
Confidence(avg, sim_threshold, unc_threshold) ==
    IF RatGeq(avg, RatInt(sim_threshold)) /\ RatLess(avg, RatInt(unc_threshold))
    THEN "uncertain"
    ELSE IF RatGeq(avg, RatInt(unc_threshold)) THEN "high"
    ELSE "low"

ClassifyGroup(recs, g, sim_threshold, unc_threshold) ==
    IF Len(g.record_indices) < 2 THEN g
    ELSE LET avg == AvgSimilarity(recs, g.record_indices)
         IN  [g EXCEPT !.avg_similarity = avg,
                       !.confidence = Confidence(avg, sim_threshold, unc_threshold)]

\* variant of the second loop that queues every classified group for review
ClassifyQueuesAll ==
    /\ pc = "group"
    /\ i = Len(records)
    /\ groups' = [k \in 1..Len(groups) |->
                    ClassifyGroup(records, groups[k], similarity_threshold,
                                  uncertainty_threshold)]
    /\ uncertain_groups' = [k \in 1..Len(groups) |-> groups[k].group_id]
    /\ pc' = "export"
    /\ UNCHANGED <<issuesVars, pairVars, inputVars, colVars, i, grouped, group_id, json_filename,
                   reviewVars, uploadVars>>

\* the second loop of group_executive_records (lines 347-382), then its return
Classify ==
    /\ pc = "group"
    /\ i = Len(records)
    /\ groups' = [k \in 1..Len(groups) |->
                    ClassifyGroup(records, groups[k], similarity_threshold,
                                  uncertainty_threshold)]
    /\ uncertain_groups' =
          LET unc == SelectSeq(groups', LAMBDA g : g.confidence = "uncertain")
          IN  [k \in 1..Len(unc) |-> unc[k].group_id]
    /\ pc' = "export"
    /\ UNCHANGED <<issuesVars, pairVars, inputVars, colVars, i, grouped, group_id, json_filename,
                   reviewVars, uploadVars>>

\* ------------------------------------------------------ export_review_data
\* variant whose failed export empties the list of uncertain groups
ExportReviewFailureClearsQueue ==
    /\ pc = "export"
    /\ \E ok \in BOOLEAN :
          /\ json_filename' = IF ok THEN "file" ELSE "NONE"
          /\ uncertain_groups' = IF ok THEN uncertain_groups ELSE <<>>
    /\ pc' = "review"
    /\ UNCHANGED <<issuesVars, pairVars, inputVars, colVars, i, grouped, groups, group_id, reviewVars,
                   uploadVars>>

\* the advisory JSON file is written, or the write fails and (None, None) is returned
ExportReview ==
    /\ pc = "export"
    /\ \E ok \in BOOLEAN : json_filename' = IF ok THEN "file" ELSE "NONE"
    /\ pc' = "review"
    /\ UNCHANGED <<issuesVars, pairVars, inputVars, colVars, clusterVars, reviewVars, uploadVars>>

\* ------------------------------------------------ display_review_interface
InSeq(x, seq) == \E k \in 1..Len(seq) : seq[k] = x

\* variant that presents every group for review
ReviewGroupsUnfiltered == groups

\* review_groups = [g for g in groups if g['group_id'] in uncertain_groups]
ReviewGroups == SelectSeq(groups, LAMBDA g : InSeq(g.group_id, uncertain_groups))

YesWords == {<<"y", "e", "s">>, <<"y">>}
NoWords == {<<"n", "o">>, <<"n">>}
SkipWords == {<<"s", "k", "i", "p">>, <<"s">>}

\* input(...).lower().strip()
ReadResponse(raw) == Strip(Lower(raw))

ReviewStart ==
    /\ pc = "review"
    /\ approved_groups' = <<>>
    /\ rejected_groups' = <<>>
    /\ IF ReviewGroups = <<>>
       THEN /\ pc' = "step8"
            /\ review_pos' = review_pos
            /\ review_status' = "completed"
       ELSE /\ pc' = "prompt"
            /\ review_pos' = 1
            /\ review_status' = "running"
    /\ UNCHANGED <<issuesVars, pairVars, inputVars, colVars, clusterVars, json_filename, response, uploadVars>>

\* variant without the break: the same group is prompted again
NextGroupNoBreak ==
    /\ review_pos' = review_pos
    /\ pc' = "prompt"
    /\ review_status' = review_status

\* leaving the while loop with break: the for loop goes to the next group or ends
NextGroup ==
    IF review_pos < Len(ReviewGroups)
    THEN /\ review_pos' = review_pos + 1
         /\ pc' = "prompt"
         /\ review_status' = review_status
    ELSE /\ review_pos' = review_pos
         /\ pc' = "step8"
         /\ review_status' = "completed"

\* variant that treats an unrecognised response as a skip
ReviewPromptInvalidSkips ==
    /\ pc = "prompt"
    /\ \E raw \in Responses :
          /\ response' = ReadResponse(raw)
          /\ IF response' \in YesWords
             THEN /\ approved_groups' =
                        Append(approved_groups, ReviewGroups[review_pos].group_id)
                  /\ rejected_groups' = rejected_groups
                  /\ NextGroup
             ELSE IF response' \in NoWords
             THEN /\ rejected_groups' =
                        Append(rejected_groups, ReviewGroups[review_pos].group_id)
                  /\ approved_groups' = approved_groups
                  /\ NextGroup
             ELSE IF response' \in SkipWords
             THEN /\ UNCHANGED <<approved_groups, rejected_groups>>
                  /\ NextGroup
             ELSE /\ UNCHANGED <<approved_groups, rejected_groups>>
                  /\ NextGroup
    /\ UNCHANGED <<issuesVars, pairVars, inputVars, colVars, clusterVars, json_filename, uploadVars>>

\* variant whose skip branch prompts again instead of leaving the loop
ReviewPromptSkipRepeats ==
    /\ pc = "prompt"
    /\ \E raw \in Responses :
          /\ response' = ReadResponse(raw)
          /\ IF response' \in YesWords
             THEN /\ approved_groups' =
                        Append(approved_groups, ReviewGroups[review_pos].group_id)
                  /\ rejected_groups' = rejected_groups
                  /\ NextGroup
             ELSE IF response' \in NoWords
             THEN /\ rejected_groups' =
                        Append(rejected_groups, ReviewGroups[review_pos].group_id)
                  /\ approved_groups' = approved_groups
                  /\ NextGroup
             ELSE UNCHANGED <<approved_groups, rejected_groups, review_pos, pc,
                              review_status>>
    /\ UNCHANGED <<issuesVars, pairVars, inputVars, colVars, clusterVars, json_filename, uploadVars>>

\* one pass of the while loop whose input() call returns raw
ReviewPrompt ==
    /\ pc = "prompt"
    /\ \E raw \in Responses :
          /\ response' = ReadResponse(raw)
          /\ IF response' \in YesWords
             THEN /\ approved_groups' =
                        Append(approved_groups, ReviewGroups[review_pos].group_id)
                  /\ rejected_groups' = rejected_groups
                  /\ NextGroup
             ELSE IF response' \in NoWords
             THEN /\ rejected_groups' =
                        Append(rejected_groups, ReviewGroups[review_pos].group_id)
                  /\ approved_groups' = approved_groups
                  /\ NextGroup
             ELSE IF response' \in SkipWords
             THEN /\ UNCHANGED <<approved_groups, rejected_groups>>
                  /\ NextGroup
             ELSE UNCHANGED <<approved_groups, rejected_groups, review_pos, pc,
                              review_status>>
    /\ UNCHANGED <<issuesVars, pairVars, inputVars, colVars, clusterVars, json_filename, uploadVars>>

\* variant that returns empty lists on interruption
ReviewInterruptDropsDecisions ==
    /\ pc = "prompt"
    /\ pc' = "step8"
    /\ review_status' = "cancelled"
    /\ approved_groups' = <<>>
    /\ rejected_groups' = <<>>
    /\ UNCHANGED <<issuesVars, pairVars, inputVars, colVars, clusterVars, json_filename, review_pos,
                   response, uploadVars>>

\* input() raises EOFError or KeyboardInterrupt: the session returns at once
ReviewInterrupt ==
    /\ pc = "prompt"
    /\ pc' = "step8"
    /\ review_status' = "cancelled"
    /\ UNCHANGED <<issuesVars, pairVars, inputVars, colVars, clusterVars, json_filename, review_pos,
                   approved_groups, rejected_groups, response, uploadVars>>

\* ------------------------------------------------------------ main, step 8
Step8 ==
    /\ pc = "step8"
    /\ IF approved_groups # <<>>
       THEN /\ pc' = "upload"
            /\ up_pos' = 1
       ELSE /\ pc' = "done"
            /\ up_pos' = up_pos
    /\ UNCHANGED <<issuesVars, pairVars, inputVars, colVars, clusterVars, json_filename, reviewVars,
                   executives, person_companies, set_calls, upload_ok>>

\* ---------------------------------------- upload_approved_groups_to_firebase
\* str(value) of a field value
PyStr(v) == IF v = None THEN <<"N", "o", "n", "e">> ELSE v

\* sum(1 for v in r.values() if v and not pd.isna(v))
CompleteCount(rec) == Cardinality({c \in DOMAIN rec : rec[c] # None /\ rec[c] # <<>>})

\* max(records, key=...): the first member with the greatest count
BestMember(recs, members) ==
    LET best == CHOOSE k \in 1..Len(members) :
                   /\ \A m \in 1..Len(members) :
                         CompleteCount(recs[members[m] + 1])
                            <= CompleteCount(recs[members[k] + 1])
                   /\ \A m \in 1..(k - 1) :
                         CompleteCount(recs[members[m] + 1])
                            < CompleteCount(recs[members[k] + 1])
    IN  recs[members[best] + 1]

\* s.replace(' ', '_').replace(',', '').replace('.', '')
RECURSIVE MakeKey(_)
MakeKey(s) ==
    IF s = <<>> THEN <<>>
    ELSE IF Head(s) = " " THEN <<"_">> \o MakeKey(Tail(s))
    ELSE IF Head(s) \in {",", "."} THEN MakeKey(Tail(s))
    ELSE <<Head(s)>> \o MakeKey(Tail(s))

PlaceholderTitles == {<<>>, <<"n", "a", "n">>, <<"n", "o", "n", "e">>}

GroupTitles(recs, members) ==
    {t \in {Strip(PyStr(Field(recs[members[k] + 1], OrName(title_col)))) :
                k \in 1..Len(members)} :
        t # <<>> /\ Lower(t) \notin PlaceholderTitles}

Variation(rec) ==
    [name |-> PyStr(Field(rec, name_col)),
     title |-> PyStr(Field(rec, OrName(title_col))),
     company |-> PyStr(Field(rec, OrName(company_col))),
     address |-> PyStr(Field(rec, OrName(address_col)))]

\* a list without its repeated entries, first occurrences kept
RECURSIVE Distinct(_)
Distinct(seq) ==
    IF seq = <<>> THEN <<>>
    ELSE LET front == Distinct(SubSeq(seq, 1, Len(seq) - 1))
             last == seq[Len(seq)]
         IN  IF \E k \in 1..Len(front) : front[k] = last THEN front
             ELSE Append(front, last)

\* variant that keeps each distinct variation once
ConsolidateDistinctVariations(recs, g) ==
    LET best_record == BestMember(recs, g.record_indices)
    IN  [name |-> Field(best_record, name_col),
         address |-> Field(best_record, OrName(address_col)),
         companies |-> g.companies,
         grouped_from |-> Len(g.record_indices),
         all_variations |-> Distinct([k \in 1..Len(g.record_indices) |->
                                         Variation(recs[g.record_indices[k] + 1])]),
         titles |-> GroupTitles(recs, g.record_indices)]

\* the consolidated person record of a group (an empty titles set stands for
\* the absent 'titles' key)
Consolidate(recs, g) ==
    LET best_record == BestMember(recs, g.record_indices)
    IN  [name |-> Field(best_record, name_col),
         address |-> Field(best_record, OrName(address_col)),
         companies |-> g.companies,
         grouped_from |-> Len(g.record_indices),
         all_variations |-> [k \in 1..Len(g.record_indices) |->
                                Variation(recs[g.record_indices[k] + 1])],
         titles |-> GroupTitles(recs, g.record_indices)]

NameKey(recs, g) ==
    MakeKey(normalize_string(Field(BestMember(recs, g.record_indices), name_col)))

CompanyKey(company) == MakeKey(normalize_string(company))

\* variant that links the person to one company of the group only
LinksOneCompany(recs, g, cs) ==
    [key \in {<<CompanyKey(c), NameKey(recs, g)>> :
                 c \in IF cs = {} THEN {} ELSE {CHOOSE c \in cs : TRUE}} |->
        [person_name |-> Field(BestMember(recs, g.record_indices), name_col)]]

\* the link records written for the companies cs of group g
Links(recs, g, cs) ==
    [key \in {<<CompanyKey(c), NameKey(recs, g)>> : c \in cs} |->
        [person_name |-> Field(BestMember(recs, g.record_indices), name_col)]]

UploadAdvance ==
    IF up_pos < Len(groups)
    THEN /\ up_pos' = up_pos + 1
         /\ pc' = "upload"
         /\ upload_ok' = upload_ok
    ELSE /\ up_pos' = up_pos
         /\ pc' = "done"
         /\ upload_ok' = "True"

\* one iteration of the loop over groups (lines 531-593); after the last one
\* the function returns True
UploadGroup ==
    /\ pc = "upload"
    /\ LET g == groups[up_pos] IN
          IF ~InSeq(g.group_id, approved_groups)
          THEN UNCHANGED <<executives, person_companies, set_calls>>
          ELSE /\ executives' = (NameKey(records, g) :> Consolidate(records, g))
                                   @@ executives
               /\ person_companies' = Links(records, g, g.companies) @@ person_companies
               /\ set_calls' = Append(set_calls, g.group_id)
    /\ UploadAdvance
    /\ UNCHANGED <<issuesVars, pairVars, inputVars, colVars, clusterVars, json_filename, reviewVars>>

\* a write to the store raises while an approved group is uploaded: the
\* person record and some of the links may already be written; the function
\* prints the error and returns False
UploadFail ==
    /\ pc = "upload"
    /\ InSeq(groups[up_pos].group_id, approved_groups)
    /\ LET g == groups[up_pos] IN
          \/ UNCHANGED <<executives, person_companies, set_calls>>
          \/ /\ g.companies # {}
             /\ executives' = (NameKey(records, g) :> Consolidate(records, g))
                                 @@ executives
             /\ set_calls' = Append(set_calls, g.group_id)
             /\ \E written \in SUBSET g.companies :
                   /\ written # g.companies
                   /\ person_companies' = Links(records, g, written) @@ person_companies
    /\ upload_ok' = "False"
    /\ pc' = "done"
    /\ UNCHANGED <<issuesVars, pairVars, inputVars, colVars, clusterVars, json_filename, reviewVars, up_pos>>

\* ----------------------------------------------------------- specification
Next ==
    \/ IdentifyColumns
    \/ ClusterStep
    \/ Classify
    \/ ExportReview
    \/ ReviewStart
    \/ ReviewPrompt
    \/ ReviewInterrupt
    \/ Step8
    \/ UploadGroup
    \/ UploadFail

Spec == Init /\ [][Next]_vars

\* the runs on the tables of KeyRecordLists and TwinRecordLists
InitKeys ==
    /\ pc = "identify"
    /\ records \in KeyRecordLists \cup TwinRecordLists
    /\ \E tp \in ThresholdPairs :
          /\ similarity_threshold = tp[1]
          /\ uncertainty_threshold = tp[2]
    /\ name_col = NoCol /\ title_col = NoCol /\ address_col = NoCol /\ company_col = NoCol
    /\ i = 0 /\ grouped = {} /\ groups = <<>> /\ group_id = 0 /\ uncertain_groups = <<>>
    /\ json_filename = "NONE"
    /\ review_pos = 0 /\ approved_groups = <<>> /\ rejected_groups = <<>>
    /\ response = <<>>
    /\ review_status = "none"
    /\ up_pos = 0
    /\ executives = [k \in {} |-> <<>>]
    /\ person_companies = [k \in {} |-> <<>>]
    /\ set_calls = <<>>
    /\ upload_ok = "NONE"
    /\ pair_record1 = NoRecord /\ pair_record2 = NoRecord
    /\ pair_cols = <<NoCol, NoCol, NoCol, NoCol>>
    /\ pair_score = NoScore /\ pair_score_rev = NoScore
    /\ IssuesIdle

SpecKeys == InitKeys /\ [][Next]_vars

\* a pass of the while loop whose input() call returns one of the six words
ValidResponse ==
    ReviewPrompt /\ response' \in YesWords \cup NoWords \cup SkipWords

\* the same runs with an operator who, at every prompt, eventually types one
\* of the six words or interrupts; the session itself runs on once called
SpecReview ==
    /\ InitKeys
    /\ [][Next]_vars
    /\ WF_vars(ReviewStart)
    /\ WF_vars(ValidResponse \/ ReviewInterrupt)

\* ------------------------------------- calculate_similarity_score on its own
ScoreAlphabet == {"a", "B", " "}

RECURSIVE StringsOfLen(_)
StringsOfLen(n) ==
    IF n = 0 THEN {<<>>}
    ELSE {Append(str, ch) : str \in StringsOfLen(n - 1), ch \in ScoreAlphabet}

\* the name values of the scored records: null and every short string
ScoreNames == {None} \cup UNION {StringsOfLen(n) : n \in 0..MaxNameLen}

\* the other fields of the scored records: all absent, the company alone,
\* all present, and title absent with the address tokens in another order
ScoreExtras ==
    { [title |-> None, address |-> <<>>, company |-> None],
      [title |-> <<" ">>, address |-> None, company |-> <<"a">>],
      [title |-> <<"a">>, address |-> <<"a", " ", "B">>, company |-> <<"B">>],
      [title |-> None, address |-> <<"B", " ", " ", "a">>, company |-> <<"a", "B">>] }

ScoreRecords ==
    {[name |-> nm, title |-> ex.title, address |-> ex.address, company |-> ex.company] :
        nm \in ScoreNames, ex \in ScoreExtras}

\* the column arguments of the scored pairs: every role resolved, and none
\* but the name
ScoreColumnArgs == {<<"name", "title", "address", "company">>,
                    <<"name", "name", "name", "name">>}

InitScore ==
    /\ pc = "score"
    /\ pair_record1 \in ScoreRecords
    /\ pair_record2 \in ScoreRecords
    /\ pair_cols \in ScoreColumnArgs
    /\ pair_score = NoScore /\ pair_score_rev = NoScore
    /\ records = <<>>
    /\ similarity_threshold = DefaultSimilarityThreshold
    /\ uncertainty_threshold = DefaultUncertaintyThreshold
    /\ name_col = NoCol /\ title_col = NoCol /\ address_col = NoCol /\ company_col = NoCol
    /\ i = 0 /\ grouped = {} /\ groups = <<>> /\ group_id = 0 /\ uncertain_groups = <<>>
    /\ json_filename = "NONE"
    /\ review_pos = 0 /\ approved_groups = <<>> /\ rejected_groups = <<>>
    /\ response = <<>>
    /\ review_status = "none"
    /\ up_pos = 0
    /\ executives = [k \in {} |-> <<>>]
    /\ person_companies = [k \in {} |-> <<>>]
    /\ set_calls = <<>>
    /\ upload_ok = "NONE"
    /\ IssuesIdle

\* calculate_similarity_score(record1, record2, ...)
ScorePair ==
    /\ pc = "score"
    /\ pair_score' = calculate_similarity_score(pair_record1, pair_record2, pair_cols[1],
                                                pair_cols[2], pair_cols[3], pair_cols[4])
    /\ pc' = "score_rev"
    /\ UNCHANGED <<issuesVars, pair_record1, pair_record2, pair_cols, pair_score_rev, inputVars,
                   colVars, clusterVars, json_filename, reviewVars, uploadVars>>

\* calculate_similarity_score(record2, record1, ...)
ScorePairReversed ==
    /\ pc = "score_rev"
    /\ pair_score_rev' = calculate_similarity_score(pair_record2, pair_record1,
                                                    pair_cols[1], pair_cols[2],
                                                    pair_cols[3], pair_cols[4])
    /\ pc' = "scored"
    /\ UNCHANGED <<issuesVars, pair_record1, pair_record2, pair_cols, pair_score, inputVars,
                   colVars, clusterVars, json_filename, reviewVars, uploadVars>>

NextScore ==
    \/ ScorePair
    \/ ScorePairReversed

SpecScore == InitScore /\ [][NextScore]_vars

\* ------------------------------------------- index_align_to_firebase.py, main
MaxIssueRows == 3

max_attempts == 3

UpperChar(ch) == IF ch \in DOMAIN Upper THEN Upper[ch] ELSE ch

UpperStr(s) == [k \in 1..Len(s) |-> UpperChar(s[k])]

\* str(row[ticker_column]).strip().upper()
NormTicker(v) == UpperStr(Strip(PyStr(v)))

\* the headers of the issues table; each role is found by its header
IssueColumns == {"ticker", "issue_name", "against", "neutral", "pro"}

\* the column checks of transform_issues_data (lines 182-222)
HasIssueColumns(cols) ==
    /\ "ticker" \in cols
    /\ "issue_name" \in cols
    /\ {"against", "neutral", "pro"} \subseteq cols

\* rows of the issues table: two spellings of one ticker, a second ticker, a
\* row without ticker, a row without issue name
IssueRowPool ==
    { [ticker |-> <<"a">>, issue_name |-> <<"i">>, against |-> 1, neutral |-> 0, pro |-> 0],
      [ticker |-> <<"A", " ">>, issue_name |-> <<"k">>, against |-> 0, neutral |-> 2, pro |-> 0],
      [ticker |-> <<"b">>, issue_name |-> <<"i">>, against |-> 0, neutral |-> 0, pro |-> 3],
      [ticker |-> None, issue_name |-> <<"k">>, against |-> 1, neutral |-> 1, pro |-> 0],
      [ticker |-> <<" ", "b">>, issue_name |-> <<" ">>, against |-> 0, neutral |-> 1, pro |-> 1] }

\* what "SELECT * FROM issues" returns: no row, at most MaxIssueRows rows (no
\* row twice), or a table without ticker column
IssueTables ==
    {<<>>}
    \cup UNION {{t \in [1..n -> IssueRowPool] :
                    \A a, b \in 1..n : a # b => t[a] # t[b]} :
                n \in 1..(IF MaxIssueRows < Cardinality(IssueRowPool)
                           THEN MaxIssueRows ELSE Cardinality(IssueRowPool))}
    \cup {<<[c \in IssueColumns \ {"ticker"} |-> r[c]]>> : r \in IssueRowPool}

\* the /tickers node of the store: both tickers mapped, to one company or to
\* two, or one of them unmapped
TickerMaps ==
    { (<<"A">> :> <<"1">>) @@ (<<"B">> :> <<"2">>),
      (<<"A">> :> <<"1">>) @@ (<<"B">> :> <<"1">>),
      (<<"B">> :> <<"2">>) }

\* what the operator types at the approval prompt
ApprovalInputs == { <<"y", "e", "s">>, <<" ", "O", "K">>,
                    <<"a", "p", "p", "r", "o", "v", "e">>,
                    <<"N", "o">>, <<"a", "b", "o", "r", "t">>,
                    <<"s">>, <<>> }

Affirmative == {<<"y", "e", "s">>, <<"y">>, <<"a", "p", "p", "r", "o", "v", "e">>,
                <<"o", "k">>}
Negative == {<<"n", "o">>, <<"n">>, <<"c", "a", "n", "c", "e", "l">>,
             <<"a", "b", "o", "r", "t">>}

\* the variables of the review tool, which the issues pipeline does not touch
reviewToolVars == <<inputVars, colVars, clusterVars, json_filename, reviewVars,
                    uploadVars, pairVars>>

InitIssues ==
    /\ pc = "firebase"
    /\ df \in IssueTables
    /\ tickers \in TickerMaps
    /\ tunnel = "None" /\ conn = "None"
    /\ ssh_tunnel = "none" /\ db_connection = "none"
    /\ main_result = "NONE"
    /\ row = 0 /\ ticker_to_company_id = NoMap /\ skipped_tickers = {}
    /\ issues_dict = NoMap /\ lookup_calls = <<>> /\ result_rows = {}
    /\ attempt = 0 /\ approved = FALSE /\ user_input = <<>>
    /\ issues_store = NoMap
    /\ records = <<>>
    /\ similarity_threshold = DefaultSimilarityThreshold
    /\ uncertainty_threshold = DefaultUncertaintyThreshold
    /\ name_col = NoCol /\ title_col = NoCol /\ address_col = NoCol /\ company_col = NoCol
    /\ i = 0 /\ grouped = {} /\ groups = <<>> /\ group_id = 0 /\ uncertain_groups = <<>>
    /\ json_filename = "NONE"
    /\ review_pos = 0 /\ approved_groups = <<>> /\ rejected_groups = <<>>
    /\ response = <<>>
    /\ review_status = "none"
    /\ up_pos = 0
    /\ executives = [k \in {} |-> <<>>]
    /\ person_companies = [k \in {} |-> <<>>]
    /\ set_calls = <<>>
    /\ upload_ok = "NONE"
    /\ pair_record1 = NoRecord /\ pair_record2 = NoRecord
    /\ pair_cols = <<NoCol, NoCol, NoCol, NoCol>>
    /\ pair_score = NoScore /\ pair_score_rev = NoScore

\* "return False" inside main's try block: the finally block runs next
ReturnFalse ==
    /\ main_result' = "False"
    /\ pc' = "finally"

\* step 1 (lines 536-540): setup_firebase_realtime returns a reference or None
SetupFirebase ==
    /\ pc = "firebase"
    /\ \/ /\ pc' = "connect"
          /\ main_result' = main_result
       \/ ReturnFalse
    /\ UNCHANGED <<tunnel, conn, ssh_tunnel, db_connection, df, tickers, transformVars,
                   approvalVars, issues_store, reviewToolVars>>

\* step 2 (lines 542-546) with connect_to_index_align_db (lines 53-113):
\* tunnel.start() and pymysql.connect() both succeed and (conn, tunnel) is
\* returned; or tunnel.start() succeeds and pymysql.connect() raises; or
\* nothing is started. In the two last cases the except clause returns
\* (None, None) and main returns False.
Connect ==
    /\ pc = "connect"
    /\ \/ /\ ssh_tunnel' = "up"
          /\ db_connection' = "open"
          /\ conn' = "conn"
          /\ tunnel' = "tunnel"
          /\ pc' = "retrieve"
          /\ main_result' = main_result
       \/ /\ ssh_tunnel' = "up"
          /\ UNCHANGED <<db_connection, conn, tunnel>>
          /\ ReturnFalse
       \/ /\ UNCHANGED <<ssh_tunnel, db_connection, conn, tunnel>>
          /\ ReturnFalse
    /\ UNCHANGED <<df, tickers, transformVars, approvalVars, issues_store, reviewToolVars>>

\* step 3 (lines 548-553): get_issues_from_database returns the table, or
\* None after an error; None and an empty table end the run
Retrieve ==
    /\ pc = "retrieve"
    /\ \/ /\ df # <<>>
          /\ pc' = "transform"
          /\ main_result' = main_result
       \/ ReturnFalse
    /\ UNCHANGED <<tunnel, conn, ssh_tunnel, db_connection, df, tickers, transformVars,
                   approvalVars, issues_store, reviewToolVars>>

\* step 4, the head of transform_issues_data (lines 170-241): without the
\* required columns it returns None and main returns False
TransformStart ==
    /\ pc = "transform"
    /\ IF HasIssueColumns(DOMAIN df[1])
       THEN /\ pc' = "rows"
            /\ main_result' = main_result
       ELSE ReturnFalse
    /\ row' = 0
    /\ ticker_to_company_id' = NoMap
    /\ skipped_tickers' = {}
    /\ issues_dict' = NoMap
    /\ UNCHANGED <<tunnel, conn, ssh_tunnel, db_connection, df, tickers, lookup_calls,
                   result_rows, approvalVars, issues_store, reviewToolVars>>

\* get_company_id_from_ticker (lines 155-166): the company id stored under
\* /tickers/<ticker>, or None when there is none or the read raises
LookupResults(ticker) ==
    {None} \cup (IF ticker \in DOMAIN tickers THEN {tickers[ticker]} ELSE {})

\* issues_dict[company_id][issue_name] = {...}
PutIssue(dict, company_id, issue_name, values) ==
    LET old == IF company_id \in DOMAIN dict THEN dict[company_id] ELSE NoMap
    IN  (company_id :> ((issue_name :> values) @@ old)) @@ dict

\* lines 264-280 for the row r with index idx and the state st
AddIssue(st, r, idx, company_id) ==
    LET issue_name == Strip(PyStr(r.issue_name))
    IN  IF r.issue_name = None \/ issue_name = <<>> THEN st
        ELSE [st EXCEPT
                 !.issues_dict = PutIssue(st.issues_dict, company_id, issue_name,
                                          [Against |-> r.against, Neutral |-> r.neutral,
                                           Pro |-> r.pro]),
                 !.result_rows = st.result_rows \cup {idx}]

\* variant of the loop body without the test of skipped_tickers
TransformIterationNoSkipTest(st, r, idx, found) ==
    LET ticker == NormTicker(r.ticker)
    IN  IF r.ticker = None \/ ticker = <<"N", "A", "N">> \/ ticker = <<>> THEN st
        ELSE IF ticker \notin DOMAIN st.ticker_to_company_id
        THEN LET called == [st EXCEPT !.lookup_calls = Append(st.lookup_calls, ticker)]
             IN  IF found # None
                 THEN AddIssue([called EXCEPT !.ticker_to_company_id =
                                   (ticker :> found) @@ st.ticker_to_company_id],
                               r, idx, found)
                 ELSE [called EXCEPT !.skipped_tickers = st.skipped_tickers \cup {ticker}]
        ELSE AddIssue(st, r, idx, st.ticker_to_company_id[ticker])

\* one iteration of "for _, row in df_transformed.iterrows()" (lines 244-280)
\* on the state st = [ticker_to_company_id, skipped_tickers, issues_dict,
\* lookup_calls, result_rows]; found is what the lookup returns if it is called
TransformIteration(st, r, idx, found) ==
    LET ticker == NormTicker(r.ticker)
    IN  IF r.ticker = None \/ ticker = <<"N", "A", "N">> \/ ticker = <<>> THEN st
        ELSE IF ticker \in st.skipped_tickers THEN st
        ELSE IF ticker \notin DOMAIN st.ticker_to_company_id
        THEN LET called == [st EXCEPT !.lookup_calls = Append(st.lookup_calls, ticker)]
             IN  IF found # None
                 THEN AddIssue([called EXCEPT !.ticker_to_company_id =
                                   (ticker :> found) @@ st.ticker_to_company_id],
                               r, idx, found)
                 ELSE [called EXCEPT !.skipped_tickers = st.skipped_tickers \cup {ticker}]
        ELSE AddIssue(st, r, idx, st.ticker_to_company_id[ticker])

\* the loop of transform_issues_data, row by row; after the last row the
\* function returns issues_dict
TransformRow ==
    /\ pc = "rows"
    /\ row < Len(df)
    /\ \E found \in LookupResults(NormTicker(df[row + 1].ticker)) :
          LET st == TransformIteration(
                        [ticker_to_company_id |-> ticker_to_company_id,
                         skipped_tickers |-> skipped_tickers,
                         issues_dict |-> issues_dict,
                         lookup_calls |-> lookup_calls,
                         result_rows |-> result_rows],
                        df[row + 1], row, found)
          IN  /\ ticker_to_company_id' = st.ticker_to_company_id
              /\ skipped_tickers' = st.skipped_tickers
              /\ issues_dict' = st.issues_dict
              /\ lookup_calls' = st.lookup_calls
              /\ result_rows' = st.result_rows
    /\ row' = row + 1
    /\ pc' = IF row' = Len(df) THEN "visualize" ELSE "rows"
    /\ UNCHANGED <<connVars, df, tickers, approvalVars, issues_store, reviewToolVars>>

\* step 5 (lines 562-567) with display_data_visualization: an empty
\* issues_dict or a failed JSON export ends the run
Visualize ==
    /\ pc = "visualize"
    /\ IF issues_dict = NoMap
       THEN ReturnFalse
       ELSE \/ /\ pc' = "approve"
               /\ main_result' = main_result
            \/ ReturnFalse
    /\ UNCHANGED <<tunnel, conn, ssh_tunnel, db_connection, df, tickers, transformVars,
                   approvalVars, issues_store, reviewToolVars>>

\* variant of the approval loop whose last invalid response falls through to
\* the upload
ApprovalPromptLastInvalidUploads ==
    /\ pc = "approve"
    /\ attempt < max_attempts
    /\ attempt' = attempt + 1
    /\ \/ \E raw \in ApprovalInputs :
             /\ user_input' = ReadResponse(raw)
             /\ IF user_input' \in Affirmative
                THEN /\ approved' = TRUE
                     /\ pc' = "upload_issues"
                     /\ main_result' = main_result
                ELSE IF user_input' \in Negative
                THEN /\ approved' = approved
                     /\ ReturnFalse
                ELSE IF attempt' < max_attempts
                THEN UNCHANGED <<approved, pc, main_result>>
                ELSE /\ approved' = approved
                     /\ pc' = "upload_issues"
                     /\ main_result' = main_result
       \/ /\ UNCHANGED <<approved, user_input>>
          /\ ReturnFalse
    /\ UNCHANGED <<tunnel, conn, ssh_tunnel, db_connection, df, tickers, transformVars,
                   issues_store, reviewToolVars>>

\* step 6, one pass of "for attempt in range(max_attempts)" (lines 608-632);
\* attempt counts the calls of input() made so far. input() returns raw, or
\* raises EOFError or KeyboardInterrupt
ApprovalPrompt ==
    /\ pc = "approve"
    /\ attempt < max_attempts
    /\ attempt' = attempt + 1
    /\ \/ \E raw \in ApprovalInputs :
             /\ user_input' = ReadResponse(raw)
             /\ IF user_input' \in Affirmative
                THEN /\ approved' = TRUE
                     /\ pc' = "upload_issues"
                     /\ main_result' = main_result
                ELSE IF user_input' \in Negative
                THEN /\ approved' = approved
                     /\ ReturnFalse
                ELSE IF attempt' < max_attempts
                THEN UNCHANGED <<approved, pc, main_result>>
                ELSE /\ approved' = approved
                     /\ ReturnFalse
       \/ /\ UNCHANGED <<approved, user_input>>
          /\ ReturnFalse
    /\ UNCHANGED <<tunnel, conn, ssh_tunnel, db_connection, df, tickers, transformVars,
                   issues_store, reviewToolVars>>

\* step 7 with upload_issues_to_firebase (lines 488-525): each company object
\* is set under /issues/<company_id>; a set() that raises skips the company.
\* The function returns success_count > 0, or False when the final read raises
UploadIssues ==
    /\ pc = "upload_issues"
    /\ \E written \in SUBSET DOMAIN issues_dict, verified \in BOOLEAN :
          /\ issues_store' = [c \in written |-> issues_dict[c]] @@ issues_store
          /\ main_result' = IF verified /\ written # {} THEN "True" ELSE "False"
    /\ pc' = "finally"
    /\ UNCHANGED <<tunnel, conn, ssh_tunnel, db_connection, df, tickers, transformVars,
                   approvalVars, reviewToolVars>>

\* the finally block (lines 656-664), then main returns
Finally ==
    /\ pc = "finally"
    /\ db_connection' = IF conn # "None" THEN "closed" ELSE db_connection
    /\ ssh_tunnel' = IF tunnel # "None" THEN "stopped" ELSE ssh_tunnel
    /\ pc' = "returned"
    /\ UNCHANGED <<tunnel, conn, main_result, df, tickers, transformVars, approvalVars,
                   issues_store, reviewToolVars>>

NextIssues ==
    \/ SetupFirebase
    \/ Connect
    \/ Retrieve
    \/ TransformStart
    \/ TransformRow
    \/ Visualize
    \/ ApprovalPrompt
    \/ UploadIssues
    \/ Finally

SpecIssues == InitIssues /\ [][NextIssues]_vars

\* =================================================================== claims
Members(g) == {g.record_indices[k] : k \in 1..Len(g.record_indices)}

Seed(g) == g.record_indices[1]

AtLeast(x, t) == RatGeq(x, RatInt(t))

\* C1: every record index appears in at most one emitted group (and once in
\* it), and two distinct emitted groups have no member index in common.
C1_Partition ==
    /\ \A a, b \in 1..Len(groups) :
          a # b => Members(groups[a]) \cap Members(groups[b]) = {}
    /\ \A a \in 1..Len(groups) :
          Cardinality(Members(groups[a])) = Len(groups[a].record_indices)

\* clustering has emitted two groups, and a member of the first lies after
\* the second group's seed and scores at or above the threshold against it
C1_Witness ==
    /\ pc = "export"
    /\ Len(groups) >= 2
    /\ \E j \in Members(groups[1]) :
          /\ j > Seed(groups[2])
          /\ AtLeast(Score(records, Seed(groups[2]), j), similarity_threshold)

\* C2: record j is a non-seed member of the group seeded by i exactly when
\* j > i, j is in no group emitted before that group (not yet assigned when
\* seed i was scanned), and score(i, j) >= groupingThreshold; scores between
\* j and the group's other members play no part.
C2_StarMembership ==
    pc \in {"group", "export"} =>
    \A a \in 1..Len(groups) :
        LET g == groups[a]
            earlier == UNION {Members(groups[b]) : b \in 1..(a - 1)}
        IN  Members(g) \ {Seed(g)} =
               {j \in 0..(Len(records) - 1) :
                   /\ j > Seed(g)
                   /\ j \notin earlier
                   /\ AtLeast(Score(records, Seed(g), j), similarity_threshold)}

\* a group holds two non-seed members that score below the threshold against
\* each other
C2_Witness ==
    /\ pc = "export"
    /\ \E a \in 1..Len(groups) :
          /\ \E j, k \in Members(groups[a]) \ {Seed(groups[a])} :
                j # k /\ ~AtLeast(Score(records, j, k), similarity_threshold)

\* C3 as stated: raising the grouping threshold never increases the number
\* of groups emitted for the same records.
C3_ThresholdMonotone ==
    pc = "export" =>
       \A t \in GroupingThresholds :
          /\ t > similarity_threshold =>
                Len(ClusterAll(records, t)) <= Len(groups)
          /\ t < similarity_threshold =>
                Len(groups) <= Len(ClusterAll(records, t))

\* C3 amended: raising the grouping threshold never produces groups where
\* the lower threshold produced none, and for at most three records it never
\* increases the number of groups.
C3_MonotoneFromNone ==
    pc = "export" =>
       \A t \in GroupingThresholds :
          /\ (t > similarity_threshold /\ (Len(groups) = 0 \/ Len(records) <= 3)) =>
                Len(ClusterAll(records, t)) <= Len(groups)
          /\ (t < similarity_threshold
                /\ (Len(ClusterAll(records, t)) = 0 \/ Len(records) <= 3)) =>
                Len(groups) <= Len(ClusterAll(records, t))

\* a higher threshold loses the only group of three records
C3_Witness ==
    /\ pc = "export"
    /\ Len(records) = 3
    /\ Len(groups) = 1
    /\ \E t \in GroupingThresholds :
          t > similarity_threshold /\ Len(ClusterAll(records, t)) = 0

GroupOf(gid) == CHOOSE g \in {groups[k] : k \in 1..Len(groups)} : g.group_id = gid

SeqSet(seq) == {seq[k] : k \in 1..Len(seq)}

NoDuplicates(seq) == Cardinality(SeqSet(seq)) = Len(seq)

\* C4: a group is consolidated and persisted only if its identifier is in the
\* approved list of the review session, and only groups of tier "uncertain"
\* are ever in that list; groups of tier "high" or "low" and rejected,
\* skipped or unreached groups are never consolidated.
C4_OnlyApprovedConsolidated ==
    /\ \A gid \in SeqSet(approved_groups) :
          /\ \E k \in 1..Len(groups) : groups[k].group_id = gid
          /\ GroupOf(gid).confidence = "uncertain"
    /\ \A gid \in SeqSet(set_calls) :
          /\ gid \in SeqSet(approved_groups)
          /\ gid \notin SeqSet(rejected_groups)
          /\ GroupOf(gid).confidence = "uncertain"
    /\ \A key \in DOMAIN executives :
          \E gid \in SeqSet(approved_groups) :
             /\ gid \in SeqSet(set_calls)
             /\ NameKey(records, GroupOf(gid)) = key
             /\ executives[key] = Consolidate(records, GroupOf(gid))
    /\ \A key \in DOMAIN person_companies :
          \E gid \in SeqSet(approved_groups) :
             /\ gid \in SeqSet(set_calls)
             /\ NameKey(records, GroupOf(gid)) = key[2]

\* the run is over, an approved group was consolidated, and a second group
\* (of tier "high", or uncertain and rejected) was not
C4_Witness ==
    /\ pc = "done"
    /\ set_calls # <<>>
    /\ \E k \in 1..Len(groups) :
          /\ \/ groups[k].confidence = "high"
             \/ groups[k].group_id \in SeqSet(rejected_groups)
          /\ groups[k].group_id \notin SeqSet(set_calls)

PresentedId == ReviewGroups[review_pos].group_id

IsPrefix(a, b) == Len(a) <= Len(b) /\ SubSeq(b, 1, Len(a)) = a

\* C5: review decisions are terminal and unique: while a group is pending it
\* and the groups after it have no decision, no identifier is both approved
\* and rejected or twice in a list; a step of the session adds at most one
\* decision, for the pending group only, never removes one, and a decision
\* moves the session past the group for good.
C5_DecisionsTerminal ==
    /\ [](/\ SeqSet(approved_groups) \cap SeqSet(rejected_groups) = {}
          /\ NoDuplicates(approved_groups)
          /\ NoDuplicates(rejected_groups)
          /\ pc = "prompt" =>
                \A k \in review_pos..Len(ReviewGroups) :
                   ReviewGroups[k].group_id
                      \notin SeqSet(approved_groups) \cup SeqSet(rejected_groups))
    /\ [][/\ pc # "review" =>
                /\ IsPrefix(approved_groups, approved_groups')
                /\ IsPrefix(rejected_groups, rejected_groups')
          /\ pc = "prompt" =>
                /\ review_pos' >= review_pos
                /\ Len(approved_groups') + Len(rejected_groups')
                      <= Len(approved_groups) + Len(rejected_groups) + 1
                /\ SeqSet(approved_groups') \cup SeqSet(rejected_groups')
                      \subseteq SeqSet(approved_groups) \cup SeqSet(rejected_groups)
                                   \cup {PresentedId}
                /\ (approved_groups' # approved_groups
                       \/ rejected_groups' # rejected_groups)
                      => (review_pos' = review_pos + 1 \/ pc' = "step8")
          /\ pc # "prompt" => (pc' = "prompt" => pc = "review")]_vars

\* the session has ended with one group approved and another rejected
C5_Witness ==
    /\ pc = "step8"
    /\ approved_groups # <<>>
    /\ rejected_groups # <<>>

C7_ValidWords == {<<"y", "e", "s">>, <<"y">>, <<"n", "o">>, <<"n">>,
                  <<"s", "k", "i", "p">>, <<"s">>}

\* C7: an invalid response at the review prompt does not consume a turn: the
\* same group stays pending and is prompted again, and the approved list, the
\* rejected list and the position in the group sequence are unchanged.
C7_InvalidKeepsTurn ==
    [][(pc = "prompt" /\ review_status' # "cancelled"
           /\ response' \notin C7_ValidWords) =>
          /\ pc' = "prompt"
          /\ UNCHANGED <<approved_groups, rejected_groups, review_pos, review_status>>]_vars

\* an invalid response was read and the second group is still pending after
\* an earlier decision
C7_Witness ==
    /\ pc = "prompt"
    /\ response = <<"o", "k">>
    /\ review_pos = 2
    /\ approved_groups # <<>>

Classified == pc \notin {"identify", "group"}

Below(x, t) == x.n < t * x.d

\* C8: for every emitted group and any thresholds, an average similarity
\* below uncertaintyThreshold gives tier "low" or "uncertain", and an average
\* at or above uncertaintyThreshold gives tier "high".
C8_TierOrdering ==
    Classified =>
       \A k \in 1..Len(groups) :
          /\ Below(groups[k].avg_similarity, uncertainty_threshold)
                => groups[k].confidence \in {"low", "uncertain"}
          /\ ~Below(groups[k].avg_similarity, uncertainty_threshold)
                => groups[k].confidence = "high"

\* with the thresholds inverted, a group whose average lies between them is
\* of tier "high"
C8_Witness ==
    /\ Classified
    /\ similarity_threshold > uncertainty_threshold
    /\ \E k \in 1..Len(groups) :
          /\ Below(groups[k].avg_similarity, similarity_threshold)
          /\ groups[k].confidence = "high"

\* C9: when groupingThreshold <= uncertaintyThreshold the tiers partition the
\* groups by average similarity (low iff avg < grouping, uncertain iff
\* grouping <= avg < uncertainty, high iff avg >= uncertainty), and the list
\* queued for review holds exactly the identifiers of the uncertain groups.
C9_TiersPartition ==
    (Classified /\ similarity_threshold <= uncertainty_threshold) =>
       /\ \A k \in 1..Len(groups) :
             LET avg == groups[k].avg_similarity
                 tier == groups[k].confidence
             IN  /\ tier \in {"low", "uncertain", "high"}
                 /\ tier = "low" <=> Below(avg, similarity_threshold)
                 /\ tier = "uncertain" <=>
                       (~Below(avg, similarity_threshold)
                           /\ Below(avg, uncertainty_threshold))
                 /\ tier = "high" <=> ~Below(avg, uncertainty_threshold)
       /\ SeqSet(uncertain_groups) =
             {groups[k].group_id : k \in {m \in 1..Len(groups) :
                                             groups[m].confidence = "uncertain"}}
       /\ NoDuplicates(uncertain_groups)

\* two groups of different tiers, one of them queued for review
C9_Witness ==
    /\ Classified
    /\ similarity_threshold <= uncertainty_threshold
    /\ Len(uncertain_groups) = 1
    /\ Len(groups) = 2

StrictlyIncreasing(seq) == \A k \in 1..(Len(seq) - 1) : seq[k] < seq[k + 1]

\* C10: group identifiers are 0, 1, 2, ... without gaps in increasing order
\* of the seed's record index (singleton seeds take no identifier); the
\* review presents the uncertain groups in strictly increasing identifier
\* order and the approved and rejected lists are in that order.
C10_IdentifierOrder ==
    /\ \A k \in 1..Len(groups) : groups[k].group_id = k - 1
    /\ group_id = Len(groups)
    /\ \A k \in 1..(Len(groups) - 1) : Seed(groups[k]) < Seed(groups[k + 1])
    /\ StrictlyIncreasing([k \in 1..Len(ReviewGroups) |-> ReviewGroups[k].group_id])
    /\ StrictlyIncreasing(uncertain_groups)
    /\ StrictlyIncreasing(approved_groups)
    /\ StrictlyIncreasing(rejected_groups)
    /\ pc = "prompt" =>
          \A gid \in SeqSet(approved_groups) \cup SeqSet(rejected_groups) :
             gid < PresentedId

\* two uncertain groups were approved in one session, or a discarded
\* singleton seed precedes the seed of the approved group
C10_Witness ==
    /\ pc = "step8"
    /\ \/ Len(approved_groups) = 2
       \/ /\ approved_groups # <<>>
          /\ \E r \in 0..(Len(records) - 1) :
                /\ r < Seed(GroupOf(approved_groups[1]))
                /\ \A k \in 1..Len(groups) : r \notin Members(groups[k])

\* the seeds visited so far that absorbed no other record: visited, in no
\* group as a non-seed member, and with no later record that was free when
\* the seed was scanned and scores at or above the threshold against it
Absorbed(r) ==
    \E k \in 1..Len(groups) : r \in Members(groups[k]) \ {Seed(groups[k])}

LoneSeed(r) ==
    /\ r < i
    /\ ~Absorbed(r)
    /\ \A j \in (r + 1)..(Len(records) - 1) :
          \/ ~AtLeast(Score(records, r, j), similarity_threshold)
          \/ \E k \in 1..Len(groups) :
                j \in Members(groups[k]) /\ Seed(groups[k]) < r

\* C11: every group emitted by clustering has at least two members: a seed
\* that absorbed no other record is discarded and is in no emitted group.
C11_NoSingletonGroups ==
    pc \in {"group", "export"} =>
       /\ \A k \in 1..Len(groups) : Len(groups[k].record_indices) >= 2
       /\ \A r \in 0..(Len(records) - 1) :
             LoneSeed(r) => \A k \in 1..Len(groups) : r \notin Members(groups[k])

\* clustering is over with one emitted group and a record that seeded a
\* candidate group, absorbed nothing and was discarded
C11_Witness ==
    /\ pc = "export"
    /\ Len(groups) >= 1
    /\ \E r \in 0..(Len(records) - 1) :
          /\ LoneSeed(r)
          /\ \A k \in 1..Len(groups) : r \notin Members(groups[k])

Indices == 0..(Len(records) - 1)

\* the company value of a record: its value in the column identified for the
\* company role (no value when the role is unresolved)
CompanyValues(g) ==
    {normalize_string(Field(records[m + 1], company_col)) : m \in Members(g)} \ {<<>>}

\* C12: the company set of every emitted group, and the company list of the
\* person entity consolidated from it, is the set of the distinct non-empty
\* normalized company values of the group's member records.
C12_CompanySetExact ==
    /\ \A k \in 1..Len(groups) : groups[k].companies = CompanyValues(groups[k])
    /\ \A key \in DOMAIN executives :
          \E gid \in SeqSet(set_calls) :
             /\ NameKey(records, GroupOf(gid)) = key
             /\ executives[key].companies = CompanyValues(GroupOf(gid))

\* the sub-scores of a pair as the run computes them, and as they are with
\* the unresolved roles left out
RunSubScores(a, b) ==
    SubScores(records[a + 1], records[b + 1], name_col, OrName(title_col),
              OrName(address_col), OrName(company_col))

ResolvedSubScores(a, b) ==
    SubScores(records[a + 1], records[b + 1], name_col, title_col, address_col,
              company_col)

\* C13: in a run where the title, address or company role is unresolved, that
\* role contributes no sub-score to any pair score, and an unresolved company
\* role contributes no value to any group's company set.
C13_UnresolvedRoleSilent ==
    (pc # "identify" /\ name_col # NoCol) =>
       /\ \A a, b \in Indices :
             a # b =>
             /\ RunSubScores(a, b) = ResolvedSubScores(a, b)
             /\ Score(records, a, b) =
                   calculate_similarity_score(records[a + 1], records[b + 1], name_col,
                                              title_col, address_col, company_col)
       /\ company_col = NoCol => \A k \in 1..Len(groups) : groups[k].companies = {}

\* the roles of the scored pair, the column each is read from, and the roles
\* whose normalized value is non-empty in both records
Roles == <<"name", "title", "address", "company">>

RoleValue(rec, r) == normalize_string(Field(rec, pair_cols[r]))

RolePresent(r) == RoleValue(pair_record1, r) # <<>> /\ RoleValue(pair_record2, r) # <<>>

PresentRoles == {r \in 1..4 : RolePresent(r)}

RoleWeight(r) == IF Roles[r] = "name" THEN 50
                 ELSE IF Roles[r] = "address" THEN 25
                 ELSE IF Roles[r] = "title" THEN 15
                 ELSE 10

RoleSimilarity(r) ==
    IF Roles[r] = "company"
    THEN fuzz_ratio(RoleValue(pair_record1, r), RoleValue(pair_record2, r))
    ELSE fuzz_token_sort_ratio(RoleValue(pair_record1, r), RoleValue(pair_record2, r))

RolePart(r) == IF RolePresent(r) THEN RatMulInt(RoleSimilarity(r), RoleWeight(r))
               ELSE RatInt(0)

RoleShare(r) == IF RolePresent(r) THEN RoleWeight(r) ELSE 0

\* C14: the pair score is the weighted average of the sub-scores of the roles
\* non-empty in both records, with weights name 0.50, address 0.25, title 0.15,
\* company 0.10 renormalized over the roles present; it is 0.0 when no role is
\* present in both records and the name similarity when the name is the only
\* role present in both.
C14_WeightedAverage ==
    pc \in {"score_rev", "scored"} =>
       /\ PresentRoles = {} => pair_score = RatInt(0)
       /\ PresentRoles # {} =>
             RatMulInt(pair_score, RoleShare(1) + RoleShare(2) + RoleShare(3) + RoleShare(4))
                = RatAdd(RatAdd(RolePart(1), RolePart(2)), RatAdd(RolePart(3), RolePart(4)))
       /\ PresentRoles = {1} => pair_score = RoleSimilarity(1)

\* name and company are the only roles present in both records (the address
\* is missing in one of them), their similarities differ, and the score lies
\* strictly between them
C14_Witness ==
    /\ pc = "scored"
    /\ pair_cols = <<"name", "title", "address", "company">>
    /\ PresentRoles = {1, 4}
    /\ RoleValue(pair_record1, 3) # RoleValue(pair_record2, 3)
    /\ RatLess(RoleSimilarity(4), pair_score)
    /\ RatLess(pair_score, RoleSimilarity(1))

\* C15: the pair score is symmetric: score(a, b) = score(b, a) for all
\* records a and b under one role mapping.
C15_Symmetric ==
    pc = "scored" => pair_score = pair_score_rev

\* two different records were scored in both orders, with a role that is
\* non-empty in the first record only, and the score is neither 0 nor 100
C15_Witness ==
    /\ pc = "scored"
    /\ pair_record1 # pair_record2
    /\ \E r \in 1..4 : RoleValue(pair_record1, r) # <<>> /\ RoleValue(pair_record2, r) = <<>>
    /\ RatLess(RatInt(0), pair_score)
    /\ RatLess(pair_score, RatInt(100))

\* C16: each approved group yields its own persisted person entity, created
\* once and never changed afterwards: an entity that is written is not
\* written again, and after all approved groups have been uploaded each of
\* them has its entity in the store.
C16_EntityNeverOverwritten ==
    /\ []((pc = "done" /\ upload_ok = "True") =>
             \A gid \in SeqSet(approved_groups) :
                /\ NameKey(records, GroupOf(gid)) \in DOMAIN executives
                /\ executives[NameKey(records, GroupOf(gid))]
                      = Consolidate(records, GroupOf(gid)))
    /\ [][\A key \in DOMAIN executives :
              key \in DOMAIN executives' /\ executives'[key] = executives[key]]_vars

\* the count of non-null, non-empty field values of the k-th member of g
FilledCount(g, k) ==
    Cardinality({c \in DOMAIN records[g.record_indices[k] + 1] :
                    /\ records[g.record_indices[k] + 1][c] # None
                    /\ records[g.record_indices[k] + 1][c] # <<>>})

\* the positions of the members of g that can be its base record: greatest
\* count, and first in member order among those
BasePositions(g) ==
    {k \in 1..Len(g.record_indices) :
        /\ \A m \in 1..Len(g.record_indices) : FilledCount(g, m) <= FilledCount(g, k)
        /\ \A m \in 1..(k - 1) : FilledCount(g, m) < FilledCount(g, k)}

\* C17: the base record of a consolidated entity is the member with the
\* greatest count of non-null, non-empty field values, the first one in member
\* order among those with the greatest count, and the entity's display name
\* and address are that record's name and address values unchanged.
C17_BaseRecord ==
    \A key \in DOMAIN executives :
       \E gid \in SeqSet(set_calls) :
          \E k \in BasePositions(GroupOf(gid)) :
             LET base == records[GroupOf(gid).record_indices[k] + 1]
             IN  /\ NameKey(records, GroupOf(gid)) = key
                 /\ executives[key].name = Field(base, name_col)
                 /\ executives[key].address = Field(base, address_col)

\* the (company key, person key) pairs of the groups with the identifiers ids
LinkKeys(ids) ==
    UNION {{<<MakeKey(normalize_string(c)), NameKey(records, GroupOf(gid))>> :
               c \in GroupOf(gid).companies} : gid \in ids}

\* C18: after a successful upload there is one link record under (normalized
\* company key, normalized person key) for every approved group and every
\* company of its company set, and no link record is ever written for a group
\* that was not approved.
C18_LinksOfApproved ==
    /\ (pc = "done" /\ upload_ok = "True") =>
          DOMAIN person_companies = LinkKeys(SeqSet(approved_groups))
    /\ DOMAIN person_companies \subseteq LinkKeys(SeqSet(approved_groups))
    /\ \A key \in DOMAIN person_companies :
          \E gid \in SeqSet(set_calls) :
             /\ key \in LinkKeys({gid})
             /\ person_companies[key].person_name
                   = Field(BestMember(records, GroupOf(gid).record_indices), name_col)

\* the upload succeeded: an approved group of two companies has its two
\* links, and a second group, not approved, has none
C18_Witness ==
    /\ pc = "done"
    /\ company_col = "company"
    /\ upload_ok = "True"
    /\ \E gid \in SeqSet(approved_groups) :
          /\ Cardinality(GroupOf(gid).companies) >= 2
          /\ Cardinality(LinkKeys({gid})) >= 2
    /\ \E k \in 1..Len(groups) :
          /\ groups[k].group_id \notin SeqSet(approved_groups)
          /\ groups[k].companies # {}
          /\ LinkKeys({groups[k].group_id}) \cap DOMAIN person_companies = {}

\* C19: when no column is identified for the name role the run aborts before
\* any grouping work: the clustering loop is never entered (no pair scored, no
\* record marked, no group created), nothing is exported, no review prompt is
\* shown and nothing is uploaded.
C19_MissingNameAborts ==
    /\ [](name_col = NoCol =>
             /\ pc \in {"identify", "done"}
             /\ i = 0 /\ grouped = {} /\ groups = <<>> /\ group_id = 0
             /\ uncertain_groups = <<>>
             /\ json_filename = "NONE"
             /\ review_status = "none" /\ review_pos = 0 /\ response = <<>>
             /\ approved_groups = <<>> /\ rejected_groups = <<>>
             /\ set_calls = <<>> /\ upload_ok = "NONE"
             /\ DOMAIN executives = {} /\ DOMAIN person_companies = {})
    /\ [][(pc = "identify" /\ "name" \notin DOMAIN records[1]) =>
             (pc' = "done" /\ name_col' = NoCol)]_vars

\* a table of two records without a name column: the run has ended right
\* after the column identification, which found the company column
C19_Witness ==
    /\ pc = "done"
    /\ name_col = NoCol
    /\ company_col = "company"
    /\ Len(records) >= 2

\* the mean of the three pair scores of a group of three
MeanOfThree(g) ==
    RatDivInt(RatAdd(RatAdd(Score(records, g.record_indices[1], g.record_indices[2]),
                            Score(records, g.record_indices[1], g.record_indices[3])),
                     Score(records, g.record_indices[2], g.record_indices[3])), 3)

\* a group of three whose non-seed members score below the grouping threshold
\* against each other and whose mean pair score is below it
LowStar(g) ==
    /\ Len(g.record_indices) = 3
    /\ ~AtLeast(Score(records, g.record_indices[2], g.record_indices[3]),
                similarity_threshold)
    /\ Below(MeanOfThree(g), similarity_threshold)

\* a table of three records in which the first scores at or above the
\* threshold with the second and the third, and these two below it
StarTable ==
    /\ Len(records) = 3
    /\ AtLeast(Score(records, 0, 1), similarity_threshold)
    /\ AtLeast(Score(records, 0, 2), similarity_threshold)
    /\ ~AtLeast(Score(records, 1, 2), similarity_threshold)

ClassifiedGroups ==
    LET gs == ClusterAll(records, similarity_threshold)
    IN  [k \in 1..Len(gs) |->
            ClassifyGroup(records, gs[k], similarity_threshold, uncertainty_threshold)]

UncertainIds ==
    LET unc == SelectSeq(ClassifiedGroups, LAMBDA g : g.confidence = "uncertain")
    IN  [k \in 1..Len(unc) |-> unc[k].group_id]

\* C21: an export that fails (no file name is returned) changes neither the
\* groups nor the list of uncertain groups, and the review session starts
\* next; whether the export failed or not, the review session starts on the
\* groups and the uncertain list that the grouping returned.
C21_FailedExportKeepsGroups ==
    /\ [](pc = "review" =>
            /\ groups = ClassifiedGroups
            /\ uncertain_groups = UncertainIds)
    /\ [][(pc = "export" /\ pc' # "export" /\ json_filename' = "NONE") =>
             /\ groups' = groups
             /\ uncertain_groups' = uncertain_groups
             /\ ReviewGroups' = ReviewGroups
             /\ pc' = "review"]_vars

\* a failed export of a run with a group to review, the session about to start
C21_Witness ==
    /\ pc = "review"
    /\ json_filename = "NONE"
    /\ uncertain_groups # <<>>

\* ---------------------------------------------------------------------- C22
\* the field of role col that the variation of a member record shows
ShownField(rec, col) == PyStr(Field(rec, col))

\* entry k of the variations vs is the member k of group g: its name, and
\* the value of every role that has a column
EntryOfMember(vs, g, k) ==
    LET rec == records[g.record_indices[k] + 1]
    IN  /\ vs[k].name = ShownField(rec, name_col)
        /\ title_col # NoCol => vs[k].title = ShownField(rec, title_col)
        /\ company_col # NoCol => vs[k].company = ShownField(rec, company_col)
        /\ address_col # NoCol => vs[k].address = ShownField(rec, address_col)

\* C22: the entity written for an approved group has a variations list with
\* one entry per member record, in member order, equal entries kept: its
\* length is the entity's grouped_from and the group's member count.
C22_VariationsPerMember ==
    [][(pc = "upload" /\ set_calls' # set_calls) =>
         LET g == groups[up_pos]
             e == executives'[NameKey(records, g)]
         IN  /\ Len(e.all_variations) = Len(g.record_indices)
             /\ Len(e.all_variations) = e.grouped_from
             /\ \A k \in 1..Len(g.record_indices) :
                    EntryOfMember(e.all_variations, g, k)]_vars

\* a stored entity of three members, two of them with the same field values
C22_Witness ==
    \E key \in DOMAIN executives :
        LET e == executives[key]
        IN  /\ e.grouped_from = 3
            /\ Len(e.all_variations) = 3
            /\ e.all_variations[1] = e.all_variations[2]
            /\ e.all_variations[3] # e.all_variations[1]

\* ---------------------------------------------------------------------- C23
ValidWords == YesWords \cup NoWords \cup SkipWords

\* C23: with an operator who eventually answers every prompt with a valid
\* word or an interruption, a started review session returns; when it has
\* returned it either went through every uncertain group or was interrupted;
\* and a response that is not a valid word leaves the session at the prompt
\* of the same group, so a run of such responses never ends it.
C23_SessionTerminates ==
    /\ (pc \in {"review", "prompt"}) ~> (pc = "step8")
    /\ [](pc = "step8" =>
            \/ review_status = "completed" /\ review_pos = Len(ReviewGroups)
            \/ review_status = "cancelled")
    /\ [][(pc = "prompt" /\ pc' = "prompt" /\ response' \notin ValidWords) =>
             /\ review_pos' = review_pos
             /\ ReviewGroups' = ReviewGroups
             /\ review_status' = "running"]_vars

\* a session of two groups that returned after the last one, one of them
\* skipped, the other rejected
C23_Witness ==
    /\ pc = "step8"
    /\ review_status = "completed"
    /\ review_pos = 2
    /\ Len(ReviewGroups) = 2
    /\ approved_groups = <<>>
    /\ Len(rejected_groups) = 1

\* ---------------------------------------------------------------------- C24
\* the ids of the groups of gs that have tier "uncertain", in order
UncertainOf(gs) ==
    LET unc == SelectSeq(gs, LAMBDA g : g.confidence = "uncertain")
    IN  [k \in 1..Len(unc) |-> unc[k].group_id]

IsSeed(r) == r < i /\ ~Absorbed(r)

\* C25: during clustering and when it has ended, any two distinct seeds, whether their
\* candidate group was emitted or discarded as a singleton, score below the
\* grouping threshold against each other, in either argument order.
C25_SeedsApart ==
    pc \in {"group", "export"} =>
        \A a, b \in Indices :
            (a # b /\ IsSeed(a) /\ IsSeed(b)) =>
                Below(Score(records, a, b), similarity_threshold)

\* clustering has ended with the seed of an emitted group and two discarded
\* singleton seeds, one of them visited before the group's seed
C25_Witness ==
    /\ pc = "export"
    /\ Len(groups) = 1
    /\ \E r, q \in Indices :
          /\ r < Seed(groups[1]) /\ Seed(groups[1]) < q
          /\ IsSeed(r) /\ IsSeed(q)

\* ---------------------------------------------------------------------- C26
\* C26: for any thresholds, a classified group of exactly two members has an
\* average similarity equal to the score of its seed and its absorbed record,
\* which is at or above the grouping threshold, and its tier is not "low".
C26_PairNeverLow ==
    (Classified /\ name_col # NoCol) =>
        \A k \in 1..Len(groups) :
            Len(groups[k].record_indices) = 2 =>
                /\ groups[k].avg_similarity =
                      Score(records, groups[k].record_indices[1],
                            groups[k].record_indices[2])
                /\ AtLeast(groups[k].avg_similarity, similarity_threshold)
                /\ groups[k].confidence \in {"uncertain", "high"}

\* a run with inverted thresholds holds a group of two whose score lies
\* between the two thresholds
C26_Witness ==
    /\ Classified /\ name_col # NoCol
    /\ uncertainty_threshold < similarity_threshold
    /\ \E k \in 1..Len(groups) :
          /\ Len(groups[k].record_indices) = 2
          /\ groups[k].confidence = "high"

\* ---------------------------------------------------------------------- C27
\* C27: every link record stored under (company key, person key) has a
\* stored person entity under that person key, and the company list of that
\* entity holds a company with that company key.
C27_LinksReferToEntities ==
    \A link \in DOMAIN person_companies :
        /\ link[2] \in DOMAIN executives
        /\ \E c \in executives[link[2]].companies : CompanyKey(c) = link[1]

\* ---------------------------------------------------------------------- C28
\* C28: when main of the issues pipeline has returned, a tunnel that was
\* started has been stopped and a database connection that was opened has
\* been closed.
C28_ConnectionsReleased ==
    pc = "returned" =>
        /\ ssh_tunnel # "up"
        /\ db_connection # "open"

\* ---------------------------------------------------------------------- C29
\* C29: the upload is called, and anything is stored under /issues, only
\* after an affirmative response to one of at most three prompts; while the
\* run is at the prompt fewer than three responses were read and none was
\* affirmative or negative; without approval the store stays empty: a
\* negative response, end of input, an interruption and the third invalid
\* response all leave the prompt without approval.
C29_UploadNeedsApproval ==
    /\ attempt <= max_attempts
    /\ pc = "approve" =>
           /\ attempt < max_attempts
           /\ ~approved
           /\ user_input \notin Affirmative \cup Negative
    /\ (pc = "upload_issues" \/ issues_store # NoMap) =>
           /\ approved
           /\ user_input \in Affirmative
           /\ attempt \in 1..max_attempts
    /\ ~approved => (issues_store = NoMap /\ pc # "upload_issues")

\* main has returned after an upload that was approved at the third prompt
C29_Witness ==
    /\ pc = "returned"
    /\ issues_store # NoMap
    /\ attempt = max_attempts
    /\ user_input = <<"o", "k">>

\* ---------------------------------------------------------------------- C30
\* the rows seen so far whose normalized ticker is t
RowsOfTicker(t) == {idx \in 0..(row - 1) : NormTicker(df[idx + 1].ticker) = t}

\* C30: during and after the transformation no ticker was looked up twice;
\* the tickers looked up are the cached ones and the skipped ones, and no
\* ticker is both; every row in the result has a cached ticker and is stored
\* under the company cached for it; no row of a skipped ticker is in the
\* result.
C30_LookupOncePerTicker ==
    pc \in {"rows", "visualize", "approve", "upload_issues", "finally", "returned"} =>
        /\ NoDuplicates(lookup_calls)
        /\ SeqSet(lookup_calls) = DOMAIN ticker_to_company_id \cup skipped_tickers
        /\ DOMAIN ticker_to_company_id \cap skipped_tickers = {}
        /\ \A idx \in result_rows :
               LET ticker == NormTicker(df[idx + 1].ticker)
               IN  /\ ticker \in DOMAIN ticker_to_company_id
                   /\ ticker_to_company_id[ticker] \in DOMAIN issues_dict
                   /\ Strip(PyStr(df[idx + 1].issue_name))
                         \in DOMAIN issues_dict[ticker_to_company_id[ticker]]
        /\ \A t \in skipped_tickers : RowsOfTicker(t) \cap result_rows = {}

\* the transformation has ended with a ticker that was skipped at its first
\* row and met again, and a row of another ticker in the result
C30_Witness ==
    /\ pc = "visualize"
    /\ \E t \in skipped_tickers : Cardinality(RowsOfTicker(t)) = 2
    /\ result_rows # {}
    /\ Len(lookup_calls) = 2

====
